---- MODULE Spec2Model ----
(***************************************************************************)
(* State-machine model of the rclone-backed file-management API            *)
(* (main.py: /health, /upload/, /upload-multiple/; files.py: /files,       *)
(* /download, DELETE /files, /mkdir, /move).                               *)
(*                                                                         *)
(* Every handler is an `async def` run on one event loop, so the code      *)
(* between two awaits of a subprocess is one atomic step.  A request r     *)
(* moves through pc[r]; the steps of different requests interleave.        *)
(* Text (paths, command arguments) is a sequence of one-character strings; *)
(* the remote prefix and an uploaded file's name are single tokens of such *)
(* a sequence (neither contains "/" or ".").                               *)
(***************************************************************************)
EXTENDS Integers, Sequences, FiniteSets, TLC

(* ------------------------------ bounds --------------------------------- *)

\* most files carried by one batch upload
MaxFiles == 2

\* the request slots: requests in flight at the same time
Req == {"r1", "r2"}

\* names of uploaded files
FileNames == {"f", "g"}

\* identities get_current_user can return (models.User.id)
UserIds == {"u1", "u2"}

\* the caller presents no bearer token
NoToken == "none"

Tokens == UserIds \cup {NoToken}

\* callers of the endpoints that read the token at most to admit the request
RouterTokens == {NoToken, "u1"}

\* the accounts with is_admin set: the seed account
Admins == {"u1"}

\* the multipart body carries no file
NoFile == "nofile"

\* user-supplied paths: "/", "a", "../a", "a..b"
Paths ==
    { <<"/">>, <<"a">>, <<".", ".", "/", "a">>, <<"a", ".", ".", "b">> }

\* folder values of the batch upload form: "/" (the default), "../a", "a..b"
Folders == Paths \ { <<"a">> }

\* stderr texts of a failing rclone run
Stderrs == {"e1"}

\* parsed stdout of `rclone lsjson`: no entry, or one file entry
Listings ==
    { <<>>, <<[Path |-> <<"x">>, Name |-> <<"x">>, IsDir |-> FALSE]>> }

\* paths listed when the translation of the listing is examined: Paths and
\* "a/", "a//"
ListPaths == Paths \cup { <<"a", "/">>, <<"a", "/", "/">> }

\* listings then: Listings and a directory "d" followed by its file "d/x"
WideListings ==
    Listings \cup
        { << [Path |-> <<"d">>, Name |-> <<"d">>, IsDir |-> TRUE],
             [Path |-> <<"d", "/", "x">>, Name |-> <<"x">>, IsDir |-> FALSE] >> }

\* stdout of `rclone lsf --dirs-only`: nothing, or one "name/" line
LsfOutputs == { <<>>, <<"d", "/", "\n">> }

(* ------------------------------ text ----------------------------------- *)

RCLONE_REMOTE == "GCS:media_mover_test"

LOCAL_UPLOAD_PATH == "uploads"

\* the working directory of the server process, as path components
Cwd == << <<"s", "r", "v">> >>

\* s[i..] starts with sub
StartsAt(s, sub, i) ==
    /\ i + Len(sub) - 1 <= Len(s)
    /\ \A k \in 1..Len(sub) : s[i + k - 1] = sub[k]

\* Python's `sub in s`
Contains(s, sub) == \E i \in 1..Len(s) : StartsAt(s, sub, i)

RECURSIVE ReplaceFrom(_, _)
\* str.replace("//", "/") from position i on: leftmost, non-overlapping
ReplaceFrom(s, i) ==
    IF i > Len(s) THEN <<>>
    ELSE IF StartsAt(s, <<"/", "/">>, i)
         THEN <<"/">> \o ReplaceFrom(s, i + 2)
         ELSE <<s[i]>> \o ReplaceFrom(s, i + 1)

ReplaceSlashes(s) == ReplaceFrom(s, 1)

RECURSIVE SplitFrom(_, _, _)
\* the "/"-separated pieces of s[i..], cur being the piece read so far
SplitFrom(s, i, cur) ==
    IF i > Len(s) THEN <<cur>>
    ELSE IF s[i] = "/" THEN <<cur>> \o SplitFrom(s, i + 1, <<>>)
         ELSE SplitFrom(s, i + 1, Append(cur, s[i]))

Split(s) == SplitFrom(s, 1, <<>>)

IsAbsolute(s) == Len(s) > 0 /\ s[1] = "/"

\* pathlib's parsing: empty and "." components are dropped, ".." is kept
PathParts(s) ==
    SelectSeq(Split(s), LAMBDA c : c # <<>> /\ c # <<".">>)

RECURSIVE Normalize(_, _, _)
\* os.path.realpath without symlinks: ".." removes the component before it
Normalize(parts, i, acc) ==
    IF i > Len(parts) THEN acc
    ELSE IF parts[i] = <<".", ".">>
         THEN Normalize(parts, i + 1,
                        IF Len(acc) = 0 THEN acc ELSE SubSeq(acc, 1, Len(acc) - 1))
         ELSE Normalize(parts, i + 1, Append(acc, parts[i]))

\* Path(p).resolve(): absolute, normalised components
Resolve(p) ==
    Normalize(PathParts(p), 1, IF IsAbsolute(p) THEN <<>> ELSE Cwd)

RECURSIVE JoinFrom(_, _)
JoinFrom(parts, i) ==
    IF i > Len(parts) THEN <<>>
    ELSE <<"/">> \o parts[i] \o JoinFrom(parts, i + 1)

\* str() of an absolute path
PathStr(parts) == IF Len(parts) = 0 THEN <<"/">> ELSE JoinFrom(parts, 1)

\* `".." in str(Path(p).resolve())`
SanitizerRejects(p) == Contains(PathStr(Resolve(p)), <<".", ".">>)

\* Path(p).name
PathName(p) ==
    IF Len(PathParts(p)) = 0 THEN <<>> ELSE PathParts(p)[Len(PathParts(p))]

IsSpace(c) == c \in {" ", "\n", "\t", "\r"}

RECURSIVE Strip(_)
\* bytes.strip(): whitespace removed at both ends
Strip(s) ==
    IF Len(s) = 0 THEN s
    ELSE IF IsSpace(s[1]) THEN Strip(Tail(s))
    ELSE IF IsSpace(s[Len(s)]) THEN Strip(SubSeq(s, 1, Len(s) - 1))
    ELSE s

\* f"{RCLONE_REMOTE}/{p}"
RemotePath(p) == <<RCLONE_REMOTE, "/">> \o p

(* ------------------------------ state ---------------------------------- *)

VARIABLES
    pc,              \* pc[r]: where request r stands in its handler
    req,             \* req[r]: the endpoint and the inputs of request r
    sanit,           \* sanit[r]: what the '..' check said: "none", "pass", "reject"
    resp,            \* resp[r]: the response delivered for r
    cmds,            \* cmds[r]: the rclone processes r has spawned, in order
    staged,          \* staged[r]: uploaded_files of a batch upload
    uploadsDir,      \* uploads/<name>: the request that wrote it, or "absent"
    tempDir,         \* uploads/temp exists
    tempFiles,       \* uploads/temp/<name>: the request that wrote it, or "absent"
    tempUsers,       \* the requests that made or reused uploads/temp since it appeared
    records,         \* the file_uploads table, in insertion order
    dlDir,           \* temp_downloads exists
    dlFiles,         \* names of the files in temp_downloads
    keepFile,        \* /tmp/.keep exists
    rcloneInstalled, \* an rclone executable is on the PATH of the server
    metrics          \* the number of rows of the system_metrics table

vars == <<pc, req, sanit, resp, cmds, staged, uploadsDir, tempDir, tempFiles,
          tempUsers, records, dlDir, dlFiles, keepFile, rcloneInstalled,
          metrics>>

Absent == "absent"

NoReq == [kind |-> "none", token |-> NoToken, path |-> <<>>, dest |-> <<>>,
          files |-> <<>>]

NoResp == [status |-> 0, detail |-> <<>>, body |-> <<>>]

\* the ways a spawned rclone can end, stdout being empty
Outcomes ==
    {[exit |-> 0, stderr |-> "", stdout |-> <<>>]}
        \cup {[exit |-> 1, stderr |-> e, stdout |-> <<>>] : e \in Stderrs}

\* the ways the directories-only probe can end
ProbeOutcomes ==
    {[exit |-> 0, stderr |-> "", stdout |-> o] : o \in LsfOutputs}
        \cup {[exit |-> 1, stderr |-> e, stdout |-> <<>>] : e \in Stderrs}

Init ==
    /\ pc = [r \in Req |-> "idle"]
    /\ req = [r \in Req |-> NoReq]
    /\ sanit = [r \in Req |-> "none"]
    /\ resp = [r \in Req |-> NoResp]
    /\ cmds = [r \in Req |-> <<>>]
    /\ staged = [r \in Req |-> <<>>]
    /\ uploadsDir = [n \in FileNames |-> Absent]
    /\ tempDir = FALSE
    /\ tempFiles = [n \in FileNames |-> Absent]
    /\ tempUsers = {}
    /\ records = <<>>
    /\ dlDir = FALSE
    /\ dlFiles = {}
    /\ keepFile = FALSE
    /\ rcloneInstalled \in BOOLEAN
    /\ metrics = 0

(* --------------------------- shared pieces ----------------------------- *)

\* asyncio.create_subprocess_exec("rclone", verb, *args)
NewCmd(verb, args) ==
    [verb |-> verb, args |-> args, done |-> FALSE, exit |-> 0, stderr |-> "",
     stdout |-> <<>>]

\* process.communicate() returns for the process spawned last
Exited(cs, o) ==
    [cs EXCEPT ![Len(cs)] =
        [@ EXCEPT !.done = TRUE, !.exit = o.exit, !.stderr = o.stderr,
                  !.stdout = o.stdout]]

CopyFailed_Never(exit) == FALSE

\* `process.returncode != 0`
CopyFailed(exit) == exit # 0

\* str(e) of an HTTPException e: "<status_code>: <detail>"
HttpExcStr(status, detail) ==
    <<IF status = 400 THEN "400: " ELSE "500: ">> \o detail

\* `except Exception as e: raise HTTPException(status_code=500, detail=str(e))`
\* applied to an HTTPException raised inside the handler's try block
Rewrapped(status, detail) ==
    [status |-> 500, detail |-> HttpExcStr(status, detail), body |-> <<>>]

\* the same applied to the FileNotFoundError of a spawn without rclone
SpawnError ==
    [status |-> 500,
     detail |-> <<"[Errno 2] No such file or directory: 'rclone'">>,
     body |-> <<>>]

\* the bearer-token dependency refuses the request before the handler runs
Unauthorized ==
    [status |-> 401, detail |-> <<"Not authenticated">>, body |-> <<>>]

\* a required File(...) field is missing: request validation error
Unprocessable ==
    [status |-> 422, detail |-> <<"Field required">>, body |-> <<>>]

Ok(body) == [status |-> 200, detail |-> <<>>, body |-> body]

\* request r ends with response x
Finish(r, x) ==
    /\ pc' = [pc EXCEPT ![r] = "done"]
    /\ resp' = [resp EXCEPT ![r] = x]

Begin(r, kind, tok, path, dest, files) ==
    /\ pc[r] = "idle"
    /\ req' = [req EXCEPT ![r] = [kind |-> kind, token |-> tok, path |-> path,
                                  dest |-> dest, files |-> files]]

(* ------------------------------ /health -------------------------------- *)

HealthBody_Probing ==
    [status |-> IF rcloneInstalled THEN "healthy" ELSE "unhealthy"]

\* the constant body of /health
HealthBody == [status |-> "healthy"]

\* main.py health_check
HealthCheck(r) ==
    \E tok \in Tokens :
        /\ Begin(r, "health", tok, <<>>, <<>>, <<>>)
        /\ Finish(r, Ok(HealthBody))
        /\ UNCHANGED <<sanit, cmds, staged, uploadsDir, tempDir, tempFiles,
                       tempUsers, records, dlDir, dlFiles, keepFile,
                       rcloneInstalled,
                       metrics>>

(* ------------------------------ /upload/ ------------------------------- *)

\* os.path.join(LOCAL_UPLOAD_PATH, file.filename)
FileLocation(name) == <<LOCAL_UPLOAD_PATH, "/", name>>

RemoveIfExists_Skipped(dir, name) == dir

\* `if os.path.exists(p): os.remove(p)` on a directory listing
RemoveIfExists(dir, name) == [dir EXCEPT ![name] = Absent]

\* File(...) of /upload/: the field is required
FileMissing(f) == f = NoFile

UploadBody_Directory(name) ==
    [filename |-> LOCAL_UPLOAD_PATH, status |-> "success",
     message |-> "File uploaded successfully"]

\* the JSON body of a successful single upload
UploadBody(name) ==
    [filename |-> name, status |-> "success",
     message |-> "File uploaded successfully"]

UploadFailure(stderr) ==
    Rewrapped(500, <<"Failed to upload to cloud storage: ", stderr>>)

\* main.py upload_file, up to the await of the rclone copy
UploadFile_Begin(r) ==
    \E tok \in RouterTokens, f \in FileNames \cup {NoFile} :
        /\ Begin(r, "upload", tok, <<>>, <<>>, <<f>>)
        /\ UNCHANGED <<sanit, staged, tempDir, tempFiles, tempUsers, records,
                       dlDir, dlFiles, keepFile, rcloneInstalled,
                       metrics>>
        /\ IF FileMissing(f)
           THEN /\ Finish(r, Unprocessable)
                /\ UNCHANGED <<cmds, uploadsDir>>
           ELSE IF rcloneInstalled
           THEN /\ uploadsDir' = [uploadsDir EXCEPT ![f] = r]
                /\ cmds' = [cmds EXCEPT ![r] = Append(@,
                       NewCmd("copy", <<FileLocation(f), <<RCLONE_REMOTE>>,
                                        <<"--no-traverse">>,
                                        <<"--gcs-bucket-policy-only">>>>))]
                /\ pc' = [pc EXCEPT ![r] = "upload_wait"]
                /\ UNCHANGED resp
           ELSE /\ uploadsDir' =
                       RemoveIfExists([uploadsDir EXCEPT ![f] = r], f)
                /\ Finish(r, SpawnError)
                /\ UNCHANGED cmds

\* main.py upload_file, from the return of communicate() on
UploadFile_Finish(r) ==
    \E o \in Outcomes :
        /\ pc[r] = "upload_wait"
        /\ cmds' = [cmds EXCEPT ![r] = Exited(@, o)]
        /\ uploadsDir' = RemoveIfExists(uploadsDir, req[r].files[1])
        /\ Finish(r, IF CopyFailed(o.exit)
                     THEN UploadFailure(o.stderr)
                     ELSE Ok(UploadBody(req[r].files[1])))
        /\ UNCHANGED <<req, sanit, staged, tempDir, tempFiles, tempUsers,
                       records, dlDir, dlFiles, keepFile, rcloneInstalled,
                       metrics>>

(* -------------------------- /upload-multiple/ --------------------------- *)

\* the file lists a multipart body can carry: 0..MaxFiles names
FileLists == UNION {[1..n -> FileNames] : n \in 0..MaxFiles}

FilesMissing_Never(files) == FALSE

\* File(...) of /upload-multiple/: at least one file is required
FilesMissing(files) == Len(files) = 0

\* temp_dir / file.filename, as the argument text
TempDirText == <<LOCAL_UPLOAD_PATH, "/", "temp">>

RECURSIVE WriteAll(_, _, _, _)
\* the loop that saves files[i..] into uploads/temp for request r
WriteAll(dir, files, i, r) ==
    IF i > Len(files) THEN dir
    ELSE WriteAll([dir EXCEPT ![files[i]] = r], files, i + 1, r)

RECURSIVE UnlinkAll(_, _, _)
\* `for file_path in uploaded_files: if file_path.exists(): file_path.unlink()`
UnlinkAll(dir, paths, i) ==
    IF i > Len(paths) THEN dir
    ELSE UnlinkAll(RemoveIfExists(dir, paths[i]), paths, i + 1)

\* `if temp_dir.exists(): shutil.rmtree(temp_dir)`: what is left in the directory
Rmtree(dir) == [n \in DOMAIN dir |-> Absent]

\* the finally block of upload_multiple_files
BatchCleanup(dir, paths) == Rmtree(UnlinkAll(dir, paths, 1))

\* f"{folder}/{file.filename}".replace("//", "/")
UploadPath(folder, name) == ReplaceSlashes(folder \o <<"/", name>>)

NewRecord_Pending(name, folder, user, r) ==
    [filename |-> name, upload_path |-> ReplaceSlashes(folder \o <<"/", name>>),
     status |-> "pending", error_message |-> "null", uploaded_by |-> user,
     by |-> r]

\* models.FileUpload(...) for one file of the batch; by is the request (not a column)
NewRecord(name, folder, user, r) ==
    [filename |-> name, upload_path |-> UploadPath(folder, name),
     status |-> "success", error_message |-> "null", uploaded_by |-> user,
     by |-> r]

NewRecords_LastOnly(files, i, folder, user, r) ==
    <<NewRecord(files[Len(files)], folder, user, r)>>

RECURSIVE NewRecords(_, _, _, _, _)
\* `for file in files: db.add(models.FileUpload(...))`
NewRecords(files, i, folder, user, r) ==
    IF i > Len(files) THEN <<>>
    ELSE <<NewRecord(files[i], folder, user, r)>>
             \o NewRecords(files, i + 1, folder, user, r)

BatchCopy(folder) ==
    NewCmd("copy", <<TempDirText, RemotePath(folder),
                     <<"--gcs-bucket-policy-only">>, <<"--no-traverse">>>>)

BatchBody(files, folder) ==
    [filenames |-> files, folder |-> folder, status |-> "success",
     message |-> <<"Files uploaded successfully to ">> \o folder]

\* main.py upload_multiple_files, up to the await of the first rclone copy
UploadMultiple_Begin(r) ==
    \E tok \in Tokens, files \in FileLists, folder \in Folders :
        /\ Begin(r, "batch", tok, folder, <<>>, files)
        /\ UNCHANGED <<uploadsDir, records, dlDir, dlFiles, keepFile,
                       rcloneInstalled,
                       metrics>>
        /\ IF tok = NoToken
           THEN /\ Finish(r, Unauthorized)
                /\ UNCHANGED <<sanit, cmds, staged, tempDir, tempFiles, tempUsers>>
           ELSE IF FilesMissing(files)
           THEN /\ Finish(r, Unprocessable)
                /\ UNCHANGED <<sanit, cmds, staged, tempDir, tempFiles, tempUsers>>
           ELSE IF SanitizerRejects(folder)
           THEN /\ sanit' = [sanit EXCEPT ![r] = "reject"]
                /\ Finish(r, Rewrapped(400, <<"Invalid folder path">>))
                /\ UNCHANGED <<cmds, staged, tempDir, tempFiles, tempUsers>>
           ELSE IF rcloneInstalled
           THEN /\ sanit' = [sanit EXCEPT ![r] = "pass"]
                /\ tempDir' = TRUE
                /\ tempUsers' = tempUsers \cup {r}
                /\ tempFiles' = WriteAll(tempFiles, files, 1, r)
                /\ staged' = [staged EXCEPT ![r] = files]
                /\ cmds' = [cmds EXCEPT ![r] = Append(@, BatchCopy(folder))]
                /\ pc' = [pc EXCEPT ![r] = "batch_wait1"]
                /\ UNCHANGED resp
           ELSE /\ sanit' = [sanit EXCEPT ![r] = "pass"]
                /\ tempDir' = FALSE
                /\ tempUsers' = {}
                /\ tempFiles' =
                       BatchCleanup(WriteAll(tempFiles, files, 1, r), files)
                /\ staged' = [staged EXCEPT ![r] = files]
                /\ Finish(r, SpawnError)
                /\ UNCHANGED cmds

\* the first copy ends, its exit status is not read; the second copy is spawned
UploadMultiple_Second(r) ==
    \E o \in Outcomes :
        /\ pc[r] = "batch_wait1"
        /\ cmds' = [cmds EXCEPT ![r] =
                       Append(Exited(@, o), BatchCopy(req[r].path))]
        /\ pc' = [pc EXCEPT ![r] = "batch_wait2"]
        /\ UNCHANGED <<req, sanit, resp, staged, uploadsDir, tempDir, tempFiles,
                       tempUsers, records, dlDir, dlFiles, keepFile,
                       rcloneInstalled,
                       metrics>>

\* main.py upload_multiple_files, from the return of the second communicate() on
UploadMultiple_Finish(r) ==
    \E o \in Outcomes :
        /\ pc[r] = "batch_wait2"
        /\ cmds' = [cmds EXCEPT ![r] = Exited(@, o)]
        /\ tempFiles' = BatchCleanup(tempFiles, staged[r])
        /\ tempDir' = FALSE
        /\ tempUsers' = {}
        /\ IF CopyFailed(o.exit)
           THEN /\ Finish(r, UploadFailure(o.stderr))
                /\ UNCHANGED records
           ELSE /\ records' = records \o
                       NewRecords(req[r].files, 1, req[r].path, req[r].token, r)
                /\ Finish(r, Ok(BatchBody(req[r].files, req[r].path)))
        /\ UNCHANGED <<req, sanit, staged, uploadsDir, dlDir, dlFiles, keepFile,
                       rcloneInstalled,
                       metrics>>

(* ------------------------------ GET /files ----------------------------- *)

ListOutcomes ==
    {[exit |-> 0, stderr |-> "", stdout |-> l] : l \in Listings}
        \cup {[exit |-> 1, stderr |-> e, stdout |-> <<>>] : e \in Stderrs}

\* f"{path}/{item['Path']}".replace("//", "/")
ItemId(path, entryPath) == ReplaceSlashes(path \o <<"/">> \o entryPath)

\* FileItem(...) for one lsjson entry
FileItem(path, item) ==
    [id |-> ItemId(path, item.Path), name |-> item.Name,
     type |-> IF item.IsDir THEN "folder" ELSE "file",
     path |-> ItemId(path, item.Path)]

\* `for item in items: file_items.append(FileItem(...))`
FileItems(path, items) == [i \in 1..Len(items) |-> FileItem(path, items[i])]

\* files.py list_files, up to the await of rclone lsjson, the path being
\* one of paths
ListFiles_BeginOn(r, paths) ==
    \E tok \in RouterTokens, path \in paths :
        /\ Begin(r, "list", tok, path, <<>>, <<>>)
        /\ UNCHANGED <<staged, uploadsDir, tempDir, tempFiles, tempUsers, records,
                       dlDir, dlFiles, keepFile, rcloneInstalled,
                       metrics>>
        /\ IF tok = NoToken
           THEN Finish(r, Unauthorized) /\ UNCHANGED <<sanit, cmds>>
           ELSE IF SanitizerRejects(path)
           THEN /\ sanit' = [sanit EXCEPT ![r] = "reject"]
                /\ Finish(r, Rewrapped(400, <<"Invalid path">>))
                /\ UNCHANGED cmds
           ELSE IF rcloneInstalled
           THEN /\ sanit' = [sanit EXCEPT ![r] = "pass"]
                /\ cmds' = [cmds EXCEPT ![r] = Append(@,
                       NewCmd("lsjson", <<ReplaceSlashes(RemotePath(path)),
                                          <<"--gcs-bucket-policy-only">>,
                                          <<"--no-traverse">>>>))]
                /\ pc' = [pc EXCEPT ![r] = "list_wait"]
                /\ UNCHANGED resp
           ELSE /\ sanit' = [sanit EXCEPT ![r] = "pass"]
                /\ Finish(r, SpawnError)
                /\ UNCHANGED cmds

ListFiles_Begin(r) == ListFiles_BeginOn(r, Paths)

\* files.py list_files, from the return of communicate() on, rclone ending
\* in one of outcomes
ListFiles_FinishOn(r, outcomes) ==
    \E o \in outcomes :
        /\ pc[r] = "list_wait"
        /\ cmds' = [cmds EXCEPT ![r] = Exited(@, o)]
        /\ Finish(r, IF CopyFailed(o.exit)
                     THEN Rewrapped(500, <<"Failed to list files: ", o.stderr>>)
                     ELSE Ok(FileItems(req[r].path, o.stdout)))
        /\ UNCHANGED <<req, sanit, staged, uploadsDir, tempDir, tempFiles,
                       tempUsers, records, dlDir, dlFiles, keepFile,
                       rcloneInstalled,
                       metrics>>

ListFiles_Finish(r) == ListFiles_FinishOn(r, ListOutcomes)

(* ----------------------------- GET /download --------------------------- *)

\* local_path is temp_downloads itself when the path has no last component
LocalIsDir(name) == name = <<>>

\* str(local_path.parent)
CopyTarget(name) == IF LocalIsDir(name) THEN <<".">> ELSE <<"temp_downloads">>

\* `if local_path.exists(): local_path.unlink()`: the files left
DlUnlink(files, name) == files \ {name}

\* the finally block of download_file raises: unlink() of a directory, or
\* iterdir() of a directory that is gone
DlCleanupRaises(dir, name) == LocalIsDir(name) \/ ~dir

\* `if not any(temp_dir.iterdir()): temp_dir.rmdir()`: the directory is left
DlDirAfter(dir, files, name) ==
    IF DlCleanupRaises(dir, name) THEN dir ELSE DlUnlink(files, name) # {}

CleanupError ==
    [status |-> 500, detail |-> <<"[Errno] temp_downloads">>, body |-> <<>>]

\* files.py download_file, up to the await of rclone copy
DownloadFile_Begin(r) ==
    \E tok \in RouterTokens, path \in Paths :
        /\ Begin(r, "download", tok, path, <<>>, <<>>)
        /\ UNCHANGED <<staged, uploadsDir, tempDir, tempFiles, tempUsers, records,
                       keepFile, rcloneInstalled,
                       metrics>>
        /\ IF tok = NoToken
           THEN /\ Finish(r, Unauthorized)
                /\ UNCHANGED <<sanit, cmds, dlDir, dlFiles>>
           ELSE IF SanitizerRejects(path)
           THEN /\ sanit' = [sanit EXCEPT ![r] = "reject"]
                /\ Finish(r, Rewrapped(400, <<"Invalid path">>))
                /\ UNCHANGED <<cmds, dlDir, dlFiles>>
           ELSE IF rcloneInstalled
           THEN /\ sanit' = [sanit EXCEPT ![r] = "pass"]
                /\ dlDir' = TRUE
                /\ cmds' = [cmds EXCEPT ![r] = Append(@,
                       NewCmd("copy", <<RemotePath(path),
                                        CopyTarget(PathName(path))>>))]
                /\ pc' = [pc EXCEPT ![r] = "download_wait"]
                /\ UNCHANGED <<resp, dlFiles>>
           ELSE /\ sanit' = [sanit EXCEPT ![r] = "pass"]
                /\ dlFiles' = IF LocalIsDir(PathName(path)) THEN dlFiles
                              ELSE DlUnlink(dlFiles, PathName(path))
                /\ dlDir' = DlDirAfter(TRUE, dlFiles, PathName(path))
                /\ Finish(r, IF DlCleanupRaises(TRUE, PathName(path))
                             THEN CleanupError ELSE SpawnError)
                /\ UNCHANGED cmds

\* files.py download_file, from the return of communicate() to the return of
\* the FileResponse; a successful copy of an object leaves it in temp_downloads
DownloadFile_Finish(r) ==
    \E o \in Outcomes :
        LET name == PathName(req[r].path)
            ok == ~CopyFailed(o.exit)
            dir == dlDir \/ (ok /\ ~LocalIsDir(name))
            files == IF ok /\ ~LocalIsDir(name) THEN dlFiles \cup {name}
                     ELSE dlFiles
        IN  /\ pc[r] = "download_wait"
            /\ cmds' = [cmds EXCEPT ![r] = Exited(@, o)]
            /\ dlFiles' = IF LocalIsDir(name) THEN files ELSE DlUnlink(files, name)
            /\ dlDir' = DlDirAfter(dir, files, name)
            /\ IF DlCleanupRaises(dir, name)
               THEN Finish(r, CleanupError)
               ELSE IF ~ok
               THEN Finish(r, Rewrapped(500,
                                <<"Failed to download file: ", o.stderr>>))
               ELSE /\ pc' = [pc EXCEPT ![r] = "download_stream"]
                    /\ UNCHANGED resp
            /\ UNCHANGED <<req, sanit, staged, uploadsDir, tempDir, tempFiles,
                           tempUsers, records, keepFile, rcloneInstalled,
                       metrics>>

\* the framework sends the FileResponse: it reads local_path now
DownloadFile_Stream(r) ==
    /\ pc[r] = "download_stream"
    /\ Finish(r, IF PathName(req[r].path) \in dlFiles
                 THEN Ok([file |-> PathName(req[r].path)])
                 ELSE [status |-> 500, detail |-> <<"Internal Server Error">>,
                       body |-> <<>>])
    /\ UNCHANGED <<req, sanit, cmds, staged, uploadsDir, tempDir, tempFiles,
                   tempUsers, records, dlDir, dlFiles, keepFile, rcloneInstalled,
                       metrics>>

(* ----------------------------- DELETE /files --------------------------- *)

DeleteCommand_AlwaysDelete(stdout) == "delete"

\* `if stdout.strip(): command = "purge" else: command = "delete"`
DeleteCommand(stdout) == IF Strip(stdout) # <<>> THEN "purge" ELSE "delete"

DeleteMessage(command) ==
    IF command = "purge" THEN "Folder deleted successfully"
    ELSE "File deleted successfully"

\* files.py delete_file, up to the await of the directories-only probe
DeleteFile_Begin(r) ==
    \E tok \in RouterTokens, path \in Paths :
        /\ Begin(r, "delete", tok, path, <<>>, <<>>)
        /\ UNCHANGED <<staged, uploadsDir, tempDir, tempFiles, tempUsers, records,
                       dlDir, dlFiles, keepFile, rcloneInstalled,
                       metrics>>
        /\ IF tok = NoToken
           THEN Finish(r, Unauthorized) /\ UNCHANGED <<sanit, cmds>>
           ELSE IF SanitizerRejects(path)
           THEN /\ sanit' = [sanit EXCEPT ![r] = "reject"]
                /\ Finish(r, Rewrapped(400, <<"Invalid path">>))
                /\ UNCHANGED cmds
           ELSE IF rcloneInstalled
           THEN /\ sanit' = [sanit EXCEPT ![r] = "pass"]
                /\ cmds' = [cmds EXCEPT ![r] = Append(@,
                       NewCmd("lsf", <<<<"--dirs-only">>,
                                       ReplaceSlashes(RemotePath(path))>>))]
                /\ pc' = [pc EXCEPT ![r] = "delete_probe"]
                /\ UNCHANGED resp
           ELSE /\ sanit' = [sanit EXCEPT ![r] = "pass"]
                /\ Finish(r, SpawnError)
                /\ UNCHANGED cmds

\* the probe ends (its exit status is not read) and the removal is spawned
DeleteFile_Remove(r) ==
    \E o \in ProbeOutcomes :
        /\ pc[r] = "delete_probe"
        /\ cmds' = [cmds EXCEPT ![r] = Append(Exited(@, o),
               NewCmd(DeleteCommand(o.stdout),
                      <<ReplaceSlashes(RemotePath(req[r].path)),
                        <<"--gcs-bucket-policy-only">>, <<"--no-traverse">>>>))]
        /\ pc' = [pc EXCEPT ![r] = "delete_wait"]
        /\ UNCHANGED <<req, sanit, resp, staged, uploadsDir, tempDir, tempFiles,
                       tempUsers, records, dlDir, dlFiles, keepFile,
                       rcloneInstalled,
                       metrics>>

\* files.py delete_file, from the return of the removal's communicate() on
DeleteFile_Finish(r) ==
    \E o \in Outcomes :
        LET command == cmds[r][Len(cmds[r])].verb
        IN  /\ pc[r] = "delete_wait"
            /\ cmds' = [cmds EXCEPT ![r] = Exited(@, o)]
            /\ Finish(r, IF CopyFailed(o.exit)
                         THEN Rewrapped(500, <<"Failed to delete ", command, ": ",
                                               o.stderr>>)
                         ELSE Ok([message |-> DeleteMessage(command)]))
            /\ UNCHANGED <<req, sanit, staged, uploadsDir, tempDir, tempFiles,
                           tempUsers, records, dlDir, dlFiles, keepFile,
                           rcloneInstalled,
                       metrics>>

(* ------------------------------ POST /mkdir ---------------------------- *)

\* files.py create_directory, up to the await of rclone copyto
CreateDirectory_Begin(r) ==
    \E tok \in RouterTokens, path \in Paths :
        /\ Begin(r, "mkdir", tok, path, <<>>, <<>>)
        /\ UNCHANGED <<staged, uploadsDir, tempDir, tempFiles, tempUsers, records,
                       dlDir, dlFiles, rcloneInstalled,
                       metrics>>
        /\ IF tok = NoToken
           THEN Finish(r, Unauthorized) /\ UNCHANGED <<sanit, cmds, keepFile>>
           ELSE IF SanitizerRejects(path)
           THEN /\ sanit' = [sanit EXCEPT ![r] = "reject"]
                /\ Finish(r, Rewrapped(400, <<"Invalid path">>))
                /\ UNCHANGED <<cmds, keepFile>>
           ELSE IF rcloneInstalled
           THEN /\ sanit' = [sanit EXCEPT ![r] = "pass"]
                /\ keepFile' = TRUE
                /\ cmds' = [cmds EXCEPT ![r] = Append(@,
                       NewCmd("copyto",
                              <<<<"/tmp/.keep">>,
                                ReplaceSlashes(RemotePath(path) \o <<"/", ".keep">>),
                                <<"--gcs-bucket-policy-only">>,
                                <<"--no-traverse">>>>))]
                /\ pc' = [pc EXCEPT ![r] = "mkdir_wait"]
                /\ UNCHANGED resp
           ELSE /\ sanit' = [sanit EXCEPT ![r] = "pass"]
                /\ keepFile' = TRUE
                /\ Finish(r, SpawnError)
                /\ UNCHANGED cmds

\* files.py create_directory, from the return of communicate() on
CreateDirectory_Finish(r) ==
    \E o \in Outcomes :
        /\ pc[r] = "mkdir_wait"
        /\ cmds' = [cmds EXCEPT ![r] = Exited(@, o)]
        /\ Finish(r, IF CopyFailed(o.exit)
                     THEN Rewrapped(500, <<"Failed to create directory: ",
                                           o.stderr>>)
                     ELSE Ok([message |-> "Directory created successfully"]))
        /\ UNCHANGED <<req, sanit, staged, uploadsDir, tempDir, tempFiles,
                       tempUsers, records, dlDir, dlFiles, keepFile,
                       rcloneInstalled,
                       metrics>>

(* ------------------------------ POST /move ----------------------------- *)

\* files.py move_file, up to the await of rclone moveto
MoveFile_Begin(r) ==
    \E tok \in RouterTokens, source \in Paths, destination \in Paths :
        /\ Begin(r, "move", tok, source, destination, <<>>)
        /\ UNCHANGED <<staged, uploadsDir, tempDir, tempFiles, tempUsers, records,
                       dlDir, dlFiles, keepFile, rcloneInstalled,
                       metrics>>
        /\ IF tok = NoToken
           THEN Finish(r, Unauthorized) /\ UNCHANGED <<sanit, cmds>>
           ELSE IF SanitizerRejects(source) \/ SanitizerRejects(destination)
           THEN /\ sanit' = [sanit EXCEPT ![r] = "reject"]
                /\ Finish(r, Rewrapped(400, <<"Invalid path">>))
                /\ UNCHANGED cmds
           ELSE IF rcloneInstalled
           THEN /\ sanit' = [sanit EXCEPT ![r] = "pass"]
                /\ cmds' = [cmds EXCEPT ![r] = Append(@,
                       NewCmd("moveto", <<RemotePath(source),
                                          RemotePath(destination)>>))]
                /\ pc' = [pc EXCEPT ![r] = "move_wait"]
                /\ UNCHANGED resp
           ELSE /\ sanit' = [sanit EXCEPT ![r] = "pass"]
                /\ Finish(r, SpawnError)
                /\ UNCHANGED cmds

\* files.py move_file, from the return of communicate() on
MoveFile_Finish(r) ==
    \E o \in Outcomes :
        /\ pc[r] = "move_wait"
        /\ cmds' = [cmds EXCEPT ![r] = Exited(@, o)]
        /\ Finish(r, IF CopyFailed(o.exit)
                     THEN Rewrapped(500, <<"Failed to move file: ", o.stderr>>)
                     ELSE Ok([message |-> "File moved successfully"]))
        /\ UNCHANGED <<req, sanit, staged, uploadsDir, tempDir, tempFiles,
                       tempUsers, records, dlDir, dlFiles, keepFile,
                       rcloneInstalled,
                       metrics>>

(* ----------------------------- /dashboard ------------------------------ *)

\* auth.get_current_admin refuses an authenticated caller who is no admin
Forbidden ==
    [status |-> 403, detail |-> <<"Not enough permissions">>, body |-> <<>>]

\* `db.query(models.FileUpload).filter(models.FileUpload.status == "failed").all()`
FailedUploads(recs) == SelectSeq(recs, LAMBDA x : x.status = "failed")

\* `.filter(models.FileUpload.status == "success").count()`
SuccessfulUploads(recs) == Len(SelectSeq(recs, LAMBDA x : x.status = "success"))

\* `(successful_uploads / total_uploads * 100) if total_uploads > 0 else 0`,
\* rounded down
SuccessRate(recs) ==
    IF Len(recs) > 0 THEN (SuccessfulUploads(recs) * 100) \div Len(recs) ELSE 0

\* `.order_by(created_at.desc()).limit(10).all()`
RecentUploads(recs) ==
    [i \in 1..(IF Len(recs) < 10 THEN Len(recs) ELSE 10) |->
        recs[Len(recs) + 1 - i]]

\* schemas.DashboardStats(...), sizes and the sampled metric values left out
StatsBody(recs) ==
    [total_uploads |-> Len(recs), success_rate |-> SuccessRate(recs),
     recent_uploads |-> RecentUploads(recs)]

\* dashboard.py get_failed_uploads
GetFailedUploads(r) ==
    \E tok \in Tokens :
        /\ Begin(r, "errors", tok, <<>>, <<>>, <<>>)
        /\ Finish(r, IF tok = NoToken THEN Unauthorized
                     ELSE IF tok \notin Admins THEN Forbidden
                     ELSE Ok(FailedUploads(records)))
        /\ UNCHANGED <<sanit, cmds, staged, uploadsDir, tempDir, tempFiles,
                       tempUsers, records, dlDir, dlFiles, keepFile,
                       rcloneInstalled, metrics>>

\* dashboard.py get_dashboard_stats: it also stores one SystemMetric row
GetDashboardStats(r) ==
    \E tok \in Tokens :
        /\ Begin(r, "stats", tok, <<>>, <<>>, <<>>)
        /\ IF tok = NoToken
           THEN Finish(r, Unauthorized) /\ UNCHANGED metrics
           ELSE IF tok \notin Admins
           THEN Finish(r, Forbidden) /\ UNCHANGED metrics
           ELSE Finish(r, Ok(StatsBody(records))) /\ metrics' = metrics + 1
        /\ UNCHANGED <<sanit, cmds, staged, uploadsDir, tempDir, tempFiles,
                       tempUsers, records, dlDir, dlFiles, keepFile,
                       rcloneInstalled>>

Next ==
    \E r \in Req :
        \/ HealthCheck(r)
        \/ UploadFile_Begin(r)
        \/ UploadFile_Finish(r)
        \/ UploadMultiple_Begin(r)
        \/ UploadMultiple_Second(r)
        \/ UploadMultiple_Finish(r)
        \/ ListFiles_Begin(r)
        \/ ListFiles_Finish(r)
        \/ DownloadFile_Begin(r)
        \/ DownloadFile_Finish(r)
        \/ DownloadFile_Stream(r)
        \/ DeleteFile_Begin(r)
        \/ DeleteFile_Remove(r)
        \/ DeleteFile_Finish(r)
        \/ CreateDirectory_Begin(r)
        \/ CreateDirectory_Finish(r)
        \/ MoveFile_Begin(r)
        \/ MoveFile_Finish(r)
        \/ GetFailedUploads(r)
        \/ GetDashboardStats(r)

Spec == Init /\ [][Next]_vars

(* the listing endpoint alone, over more paths and listings *)

WideListOutcomes ==
    {[exit |-> 0, stderr |-> "", stdout |-> l] : l \in WideListings}
        \cup {[exit |-> 1, stderr |-> e, stdout |-> <<>>] : e \in Stderrs}

ListFiles_BeginWide(r) == ListFiles_BeginOn(r, ListPaths)

ListFiles_FinishWide(r) == ListFiles_FinishOn(r, WideListOutcomes)

NextList ==
    \E r \in Req :
        \/ ListFiles_BeginWide(r)
        \/ ListFiles_FinishWide(r)

SpecList == Init /\ [][NextList]_vars

(* ------------------------------ claims --------------------------------- *)

Done(r) == pc[r] = "done"

ClientError(x) == x.status \in 400..499

ServerError(x) == x.status \in 500..599

\* p has a parent-directory traversal segment
HasTraversalSegment(p) ==
    \E i \in 1..Len(Split(p)) : Split(p)[i] = <<".", ".">>

\* request r went to a path-accepting endpoint with a traversal path argument
TraversalRequest(r) ==
    /\ req[r].kind \in {"list", "download", "delete", "mkdir", "move", "batch"}
    /\ HasTraversalSegment(req[r].path) \/ HasTraversalSegment(req[r].dest)

\* command c was spawned with text p in one of its arguments
SpawnedWith(c, p) == \E j \in 1..Len(c.args) : Contains(c.args[j], p)

\* C1: a request whose path argument has a '..' segment ends with a client
\* error, and no rclone process is spawned with that path.
C1_TraversalNeverReachesRclone ==
    \A r \in Req :
        TraversalRequest(r) =>
            /\ \A i \in 1..Len(cmds[r]) :
                   /\ HasTraversalSegment(req[r].path) =>
                          ~SpawnedWith(cmds[r][i], req[r].path)
                   /\ HasTraversalSegment(req[r].dest) =>
                          ~SpawnedWith(cmds[r][i], req[r].dest)
            /\ Done(r) => ClientError(resp[r])

\* C2: whenever the '..' check of the sanitizer fires, the response delivered
\* is a client error (4xx), not a server error.
C2_RejectionIsClientError ==
    \A r \in Req : Done(r) /\ sanit[r] = "reject" => ClientError(resp[r])

\* the response of r is a server error whose detail holds the text stderr
CarriesStderr(x, stderr) ==
    ServerError(x) /\ \E k \in 1..Len(x.detail) : x.detail[k] = stderr

\* C3: whenever an rclone invocation of a request exits non-zero, the request
\* ends with a server error whose detail carries that invocation's stderr.
C3_EveryFailureSurfaces ==
    \A r \in Req :
        Done(r) =>
            \A i \in 1..Len(cmds[r]) :
                cmds[r][i].exit # 0 => CarriesStderr(resp[r], cmds[r][i].stderr)

\* request r has left a file in local staging
LeftStaging(r) ==
    \/ \E n \in FileNames : uploadsDir[n] = r \/ tempFiles[n] = r
    \/ tempDir /\ r \in tempUsers

\* C4: once a single or batch upload has completed, whatever its outcome, no
\* staging file it wrote remains, and no staging directory of a batch upload.
C4_NoStagingAfterCompletion ==
    \A r \in Req :
        Done(r) /\ req[r].kind \in {"upload", "batch"} => ~LeftStaging(r)

C4_Witness ==
    /\ \E r \in Req :
           /\ Done(r) /\ req[r].kind = "batch" /\ Len(staged[r]) = 2
           /\ Len(cmds[r]) = 2 /\ cmds[r][2].exit # 0
    /\ \E r \in Req :
           /\ Done(r) /\ req[r].kind = "upload" /\ Len(cmds[r]) = 1
           /\ cmds[r][1].exit # 0

\* the records request r has inserted, in order
RecordsBy(r) == SelectSeq(records, LAMBDA x : x.by = r)

BatchSucceeded(r) ==
    Done(r) /\ req[r].kind = "batch" /\ resp[r].status = 200

\* C5: after a batch upload of N >= 1 files succeeds there are exactly N new
\* records, one per file, each with status success and the caller's identity;
\* records that existed before are unchanged.
C5_OneRecordPerFile ==
    /\ [](\A r \in Req :
            BatchSucceeded(r) =>
                /\ Len(req[r].files) >= 1
                /\ Len(RecordsBy(r)) = Len(req[r].files)
                /\ \A i \in 1..Len(req[r].files) :
                       /\ RecordsBy(r)[i].filename = req[r].files[i]
                       /\ RecordsBy(r)[i].status = "success"
                       /\ RecordsBy(r)[i].uploaded_by = req[r].token
                       /\ req[r].token \in UserIds)
    /\ [][/\ Len(records') >= Len(records)
          /\ SubSeq(records', 1, Len(records)) = records]_vars

C5_Witness ==
    \E r \in Req :
        /\ BatchSucceeded(r) /\ Len(req[r].files) = 2
        /\ Len(records) > Len(RecordsBy(r))

\* the checked copy of batch upload r has failed
BatchCopyFailed(r) ==
    /\ Done(r) /\ req[r].kind = "batch"
    /\ Len(cmds[r]) = 2 /\ cmds[r][2].exit # 0

\* C6: if the remote copy of a batch upload fails, the request ends with an
\* error response and no record is written for any of its files.
C6_FailedBatchWritesNothing ==
    \A r \in Req :
        BatchCopyFailed(r) => resp[r].status >= 400 /\ RecordsBy(r) = <<>>

C6_Witness ==
    \E r \in Req : BatchCopyFailed(r) /\ Len(records) > 0

\* C7: a DELETE that passes the sanitizer runs the directories-only probe
\* first and then exactly one removal: purge when the probe printed anything,
\* delete when it printed nothing; the message says Folder exactly for purge.
C7_DeleteResolution ==
    \A r \in Req :
        req[r].kind = "delete" =>
            /\ Len(cmds[r]) <= 2
            /\ Len(cmds[r]) >= 1 => cmds[r][1].verb = "lsf"
            /\ Len(cmds[r]) = 2 =>
                   /\ cmds[r][1].done
                   /\ cmds[r][2].verb =
                          IF cmds[r][1].stdout # <<>> THEN "purge" ELSE "delete"
            /\ Done(r) /\ sanit[r] = "pass" /\ rcloneInstalled =>
                   Len(cmds[r]) = 2
            /\ Done(r) /\ resp[r].status = 200 =>
                   /\ Len(cmds[r]) = 2
                   /\ resp[r].body.message =
                          IF cmds[r][2].verb = "purge"
                          THEN "Folder deleted successfully"
                          ELSE "File deleted successfully"

C7_Witness ==
    \E r \in Req :
        /\ Done(r) /\ req[r].kind = "delete" /\ resp[r].status = 200
        /\ cmds[r][1].stdout # <<>> /\ cmds[r][2].verb = "purge"

\* request r carries no file
NoFileRequest(r) ==
    \/ req[r].kind = "batch" /\ req[r].files = <<>>
    \/ req[r].kind = "upload" /\ req[r].files = <<NoFile>>

\* request r has spawned nothing, staged nothing and recorded nothing
NoEffect(r) ==
    /\ cmds[r] = <<>> /\ staged[r] = <<>> /\ RecordsBy(r) = <<>>
    /\ \A n \in FileNames : uploadsDir[n] # r /\ tempFiles[n] # r

AnonymousUploadCopied(r) ==
    /\ Done(r) /\ req[r].kind = "upload" /\ req[r].token = NoToken
    /\ Len(cmds[r]) = 1 /\ cmds[r][1].exit = 0

\* C9: a single upload without authentication whose copy exits zero is
\* answered 200 with the file's name in `filename` and status success.
C9_SingleUploadSucceeds ==
    \A r \in Req :
        AnonymousUploadCopied(r) =>
            /\ resp[r].status = 200
            /\ resp[r].body.filename = req[r].files[1]
            /\ resp[r].body.status = "success"

C9_Witness ==
    \E r \in Req : AnonymousUploadCopied(r) /\ req[r].files = <<"g">>

\* C10: whatever the other requests do, whether rclone can run or not and
\* whoever calls, /health answers 200 {"status": "healthy"} and spawns nothing.
C10_HealthAlwaysHealthy ==
    \A r \in Req :
        req[r].kind = "health" =>
            /\ Done(r)
            /\ resp[r].status = 200
            /\ resp[r].body = [status |-> "healthy"]
            /\ cmds[r] = <<>>

C10_Witness ==
    \E r, q \in Req :
        /\ req[r].kind = "health" /\ Done(r) /\ req[r].token = NoToken
        /\ pc[q] \in {"batch_wait2", "delete_wait"}


\* C11: in a download whose copy-down succeeded the local copy is streamed
\* before it is deleted: it still exists when the response body is read.
C11_StreamedBeforeDeleted ==
    \A r \in Req :
        pc[r] = "download_stream" => PathName(req[r].path) \in dlFiles

\* C12: a batch upload spawns its copy-up once, and no request spawns the
\* same adapter operation (verb and arguments) a second time.
C12_EachOperationOnce ==
    \A r \in Req :
        /\ req[r].kind = "batch" => Len(cmds[r]) <= 1
        /\ \A i, j \in 1..Len(cmds[r]) :
               i < j =>
                   ~(/\ cmds[r][i].verb = cmds[r][j].verb
                     /\ cmds[r][i].args = cmds[r][j].args)

\* the copy-up of upload r is running
CopyUpRunning(r) == pc[r] \in {"upload_wait", "batch_wait1", "batch_wait2"}

\* what the running copy-up of r finds at its source
CopySource(r) ==
    IF req[r].kind = "upload"
    THEN {n \in FileNames : n = req[r].files[1] /\ uploadsDir[n] # Absent}
    ELSE {n \in FileNames : tempFiles[n] # Absent}

\* the files r has staged, and those of them that are still r's own writing
StagedNames(r) == {req[r].files[i] : i \in 1..Len(req[r].files)}

OwnStaged(r) ==
    IF req[r].kind = "upload"
    THEN {n \in StagedNames(r) : uploadsDir[n] = r}
    ELSE {n \in StagedNames(r) : tempFiles[n] = r}

\* C14: under any interleaving of uploads, while the copy-up of a request
\* runs its source holds exactly the files the request staged, as the request
\* wrote them: none removed by another request, none of another request.
C14_CopyUpSeesOwnFiles ==
    \A r \in Req :
        CopyUpRunning(r) =>
            CopySource(r) = StagedNames(r) /\ OwnStaged(r) = StagedNames(r)

RECURSIVE Collapsed(_)
\* s with every run of "/" replaced by one "/"
Collapsed(s) ==
    IF Len(s) = 0 THEN s
    ELSE IF Len(s) >= 2 /\ s[1] = "/" /\ s[2] = "/" THEN Collapsed(Tail(s))
    ELSE <<s[1]>> \o Collapsed(Tail(s))

\* listing request r was answered with its FileItems
Listed(r) == Done(r) /\ req[r].kind = "list" /\ resp[r].status = 200

\* C13: GET /files emits one FileItem per entry of the adapter, in its
\* order; each identifier, equal to the path field, is the base path joined
\* to the entry path with duplicate separators collapsed, so it has no "//".
C13_IdsAreCollapsed ==
    \A r \in Req :
        Listed(r) =>
            LET items == cmds[r][1].stdout
                out == resp[r].body
            IN  /\ Len(out) = Len(items)
                /\ \A i \in 1..Len(items) :
                       /\ out[i].name = items[i].Name
                       /\ out[i].id = out[i].path
                       /\ out[i].id =
                              Collapsed(req[r].path \o <<"/">> \o items[i].Path)
                       /\ ~Contains(out[i].id, <<"/", "/">>)

\* C15: every persisted record has status success and no error message and
\* no record is ever changed, so the failed-uploads query returns nothing
\* and the dashboard's success rate is 0 (no records) or 100.
C15_OnlySuccessRecords ==
    /\ [](/\ \A i \in 1..Len(records) :
               /\ records[i].status = "success"
               /\ records[i].error_message = "null"
          /\ \A r \in Req :
               /\ Done(r) /\ req[r].kind = "errors" /\ resp[r].status = 200 =>
                      resp[r].body = <<>>
               /\ Done(r) /\ req[r].kind = "stats" /\ resp[r].status = 200 =>
                      resp[r].body.success_rate =
                          IF resp[r].body.total_uploads = 0 THEN 0 ELSE 100)
    /\ [][\A i \in 1..Len(records) :
              i <= Len(records') /\ records'[i] = records[i]]_vars

C15_Witness ==
    \E r, q \in Req :
        /\ BatchSucceeded(q) /\ Len(records) = 2
        /\ Done(r) /\ req[r].kind = "stats"
        /\ resp[r].status = 200 /\ resp[r].body.success_rate = 100

====
